---- MODULE Spec2Model ----
(***************************************************************************)
(* Model of src/wordle.py: the matcher (Wordle.match_words), the game      *)
(* object (Wordle: reset, submit_guess, fork, get_candidates) and the      *)
(* terminal play loop (TerminalGame.start).                                *)
(***************************************************************************)
EXTENDS Integers, Sequences, FiniteSets, TLC

VARIABLES
    objs,       \* slot -> the fields of a Wordle object (history is a reference into lists)
    alive,      \* the slots that hold a Wordle object
    lists,      \* the heap of Python lists: list id -> sequence of (guess, result) pairs
    raised,     \* the exception the last submit_guess call raised, or "none"
    term_pc,    \* TerminalGame.start: "off" (not called), "loop" (in the while loop), "done"
    m_answer,   \* argument of the match_words call under test
    m_guess,    \* argument of the match_words call under test
    m_result,   \* value returned by the match_words call
    m_pc,       \* "idle", "call" (before the call) or "done" (after it)
    c_cache,    \* the mapping passed to match_words_with_cache: key -> result
    c_call,     \* the last match_words_with_cache call: its arguments, what it returned, hit or miss
    order,      \* the iteration order of the frozenset answer_words in this process
    policy,     \* the policy in use: "random" or "greedy"
    cache,      \* GreedyEliminationPolicy.cache: history -> word
    p_raised,   \* the exception the last policy.guess call raised, or "none"
    p_guess,    \* the word the last policy.guess call returned, None if it raised
    b_pc,       \* benchmark_policy: "idle", "for", "while", "submit" or "crashed"
    b_i,        \* benchmark_policy: index into order of the answer of the for loop
    passes      \* the number of benchmark_policy calls made

matchVars == <<m_answer, m_guess, m_result, m_pc>>
cacheVars == <<c_cache, c_call>>
policyVars == <<order, policy, cache, p_raised, p_guess>>
benchVars == <<b_pc, b_i, passes>>
gameVars == <<objs, alive, lists, raised, term_pc>>
vars == <<objs, alive, lists, raised, term_pc, m_answer, m_guess, m_result, m_pc,
          c_cache, c_call, order, policy, cache, p_raised, p_guess, b_pc, b_i, passes>>

----------------------------------------------------------------------------
(* Bounds *)

\* number of letters of the alphabet the matcher is exercised on
NumLetters == 3
\* submit_guess is explored until a history holds this many entries
MaxHistory == 6
\* the same, while two game objects (an original and its fork) are alive
ForkHistory == 1
\* submit_guess is explored for this many calls beyond the attempt budget
Overrun == 2
\* match_words_with_cache is explored until the mapping holds this many entries
MaxCached == 3
\* the number of benchmark_policy calls explored
MaxPasses == 2

----------------------------------------------------------------------------
(* Constants of the program *)

WORD_LEN == 5

EXACT == "EXACT"
SEMI == "SEMI"
NONE == "NONE"
Matching == {EXACT, SEMI, NONE}

IN_PROGRESS == "IN_PROGRESS"
WIN == "WIN"
LOSE == "LOSE"
Status == {IN_PROGRESS, WIN, LOSE}

\* Python's None, for Wordle.answer and for the unset cells of match_words' result
None == <<>>
Unset == "None"

Letters == <<"a", "b", "c", "d", "e">>
Alphabet == {Letters[i] : i \in 1..NumLetters}
AllWords == [1..WORD_LEN -> Alphabet]

----------------------------------------------------------------------------
(* render_ascii *)

MatchingValue(matching) ==
    CASE matching = EXACT -> "+"
      [] matching = SEMI -> "?"
      [] matching = NONE -> "_"
      [] OTHER -> " "

render_ascii(matchings) == [i \in DOMAIN matchings |-> MatchingValue(matchings[i])]

----------------------------------------------------------------------------
(* Wordle.match_words *)

Min(S) == CHOOSE x \in S : \A y \in S : x <= y

\* first pass: the answer positions it adds to used
first_pass_used_skipped(answer, guess) == {}

first_pass_used(answer, guess) ==
    {i \in DOMAIN guess : answer[i] = guess[i]}

\* the inner loop of the second pass: the first answer position that holds
\* guess_char and is not used, or 0 when the loop ends without a break
first_unused_ignoring_used(answer, guess_char, used) ==
    LET js == {j \in DOMAIN answer : guess_char = answer[j]}
    IN  IF js = {} THEN 0 ELSE Min(js)

first_unused(answer, guess_char, used) ==
    LET js == {j \in DOMAIN answer : guess_char = answer[j] /\ j \notin used}
    IN  IF js = {} THEN 0 ELSE Min(js)

RECURSIVE second_pass(_, _, _, _, _)
second_pass(answer, guess, i, result, used) ==
    IF i > Len(guess) THEN result
    ELSE IF result[i] = Unset
         THEN LET j == first_unused(answer, guess[i], used)
              IN  IF j = 0
                  THEN second_pass(answer, guess, i + 1, result, used)
                  ELSE second_pass(answer, guess, i + 1,
                                   [result EXCEPT ![i] = SEMI], used \cup {j})
         ELSE second_pass(answer, guess, i + 1, result, used)

match_words_by_membership(answer, guess) ==
    [i \in 1..WORD_LEN |->
        IF \E j \in DOMAIN answer : answer[j] = guess[i] THEN EXACT ELSE NONE]

match_words(answer, guess) ==
    LET used == first_pass_used(answer, guess)
        first == [i \in 1..WORD_LEN |->
                    IF i \in DOMAIN guess /\ answer[i] = guess[i] THEN EXACT ELSE Unset]
        result == second_pass(answer, guess, 1, first, used)
    IN  [i \in 1..WORD_LEN |-> IF result[i] # Unset THEN result[i] ELSE NONE]

all_exact(matching_result) ==
    \A i \in DOMAIN matching_result : matching_result[i] = EXACT

----------------------------------------------------------------------------
(* The cases of test_match_words: <<answer, guess, expected>> *)

TestCases == {
    << <<"a","b","c","d","e">>, <<"a","b","c","d","e">>, <<"+","+","+","+","+">> >>,
    << <<"a","a","a","a","b">>, <<"a","a","a","b","c">>, <<"+","+","+","?","_">> >>,
    << <<"w","o","r","d","s">>, <<"s","w","o","r","d">>, <<"?","?","?","?","?">> >>,
    << <<"l","e","e","c","h">>, <<"p","e","a","c","e">>, <<"_","+","_","+","?">> >>,
    << <<"s","k","i","l","l">>, <<"l","i","l","l","s">>, <<"?","?","_","+","?">> >>,
    << <<"s","e","n","s","e">>, <<"e","n","s","e","s">>, <<"?","?","?","?","?">> >>,
    << <<"a","b","b","e","y">>, <<"o","p","e","n","s">>, <<"_","_","?","_","_">> >>,
    << <<"a","b","b","e","y">>, <<"b","a","b","e","s">>, <<"?","?","+","+","_">> >>,
    << <<"a","b","b","e","y">>, <<"k","e","b","a","b">>, <<"_","?","+","?","?">> >>,
    << <<"a","b","b","e","y">>, <<"a","b","y","s","s">>, <<"+","+","?","_","_">> >> }

MatchInputs == (AllWords \X AllWords) \cup {<<t[1], t[2]>> : t \in TestCases}

----------------------------------------------------------------------------
(* The dictionaries (allowed_words.txt, answer_words.txt) and the inputs *)

abbey == <<"a","b","b","e","y">>
abyss == <<"a","b","y","s","s">>
babes == <<"b","a","b","e","s">>
pinup == <<"p","i","n","u","p">>
kebab == <<"k","e","b","a","b">>
motto == <<"m","o","t","t","o">>

answer_words == {abbey, abyss, babes, motto}
allowed_words == {babes, pinup}

\* the words a caller passes to submit_guess: a word of answer_words only, one
\* of allowed_words only, the answer a caller may have set, and a word of neither set
Inputs == {abbey, abyss, pinup, kebab}

\* the arguments a caller passes to reset: None for a random word of
\* answer_words, a word of answer_words, or a word that is not in answer_words
ResetArgs == {None, abbey, pinup}

\* the input line that TerminalGame.start treats as a command
CHEAT == <<"/","c","h","e","a","t">>

DefaultMaxAttemps == 6
MaxAttempsChoices == {1, DefaultMaxAttemps}

Objs == {1, 2}
ListIds == {1, 2}

----------------------------------------------------------------------------
(* The Wordle object *)

\* the fields of Wordle(max_attemps = m), with history the list `id`
Wordle(m, id) ==
    [answer |-> None, history |-> id, status |-> IN_PROGRESS,
     attemps_left |-> 0, max_attemps |-> m]

\* what an empty slot holds
Blank == Wordle(0, 0)

Other(o) == CHOOSE p \in Objs : p # o

\* the list that objs[o].history refers to
history(o) == lists[objs[o].history]

\* a list id no object other than o refers to: where o's newly created list goes
NewList(o) ==
    LET taken == {objs[p].history : p \in (alive \ {o})}
    IN  Min(ListIds \ taken)

\* the heap without the lists that no object of al refers to
Collect(os, al, ls) ==
    [i \in ListIds |-> IF \E p \in al : os[p].history = i THEN ls[i] ELSE <<>>]

attemps(obj) == obj.max_attemps - obj.attemps_left

word_is_allowed_only_allowed(word) == word \in allowed_words

word_is_allowed(word) == word \in allowed_words \/ word \in answer_words

update_status_budget_first(attemps_left, matching_result) ==
    IF attemps_left = 0 THEN LOSE
    ELSE IF all_exact(matching_result) THEN WIN
    ELSE IN_PROGRESS

update_status(attemps_left, matching_result) ==
    IF all_exact(matching_result) THEN WIN
    ELSE IF attemps_left = 0 THEN LOSE
    ELSE IN_PROGRESS

\* the object after submit_guess raised ValueError
rejected_after_decrement(obj) == [obj EXCEPT !.attemps_left = @ - 1]

rejected(obj) == obj

could_answer_fit_last(answer, hist) ==
    hist = <<>> \/ match_words(answer, hist[Len(hist)][1]) = hist[Len(hist)][2]

could_answer_fit_any(answer, hist) ==
    \E k \in DOMAIN hist : match_words(answer, hist[k][1]) = hist[k][2]

could_answer_fit_but_last(answer, hist) ==
    \A k \in 1..(Len(hist) - 1) : match_words(answer, hist[k][1]) = hist[k][2]

could_answer_fit_reversed(answer, hist) ==
    \A k \in DOMAIN hist : match_words(hist[k][1], answer) = hist[k][2]

could_answer_fit_history(answer, hist) ==
    \A k \in DOMAIN hist : match_words(answer, hist[k][1]) = hist[k][2]

\* get_candidates, as the set of the words it yields
candidates_of(hist) == {answer \in answer_words : could_answer_fit_history(answer, hist)}

get_candidates(o) == candidates_of(history(o))

\* how many more entries the histories are explored to
HistoryCap(o) ==
    IF alive = Objs THEN ForkHistory
    ELSE IF objs[o].max_attemps + Overrun < MaxHistory THEN objs[o].max_attemps + Overrun
    ELSE MaxHistory

----------------------------------------------------------------------------
(* The operations *)

reset_to(o, new_answer) ==
    LET id == NewList(o)
        os == [objs EXCEPT ![o] = [@ EXCEPT !.answer = new_answer,
                                            !.history = id,
                                            !.status = IN_PROGRESS,
                                            !.attemps_left = objs[o].max_attemps]]
    IN  /\ objs' = os
        /\ lists' = Collect(os, alive, [lists EXCEPT ![id] = <<>>])
        /\ raised' = "none"
        /\ UNCHANGED alive

reset(o, answer) ==
    IF answer # None
    THEN reset_to(o, answer)
    ELSE \E chosen \in answer_words : reset_to(o, chosen)

submit_guess(o, word) ==
    IF ~word_is_allowed(word)
    THEN /\ raised' = "ValueError"
         /\ objs' = [objs EXCEPT ![o] = rejected(@)]
         /\ UNCHANGED <<alive, lists>>
    ELSE IF objs[o].answer = None
    THEN \* attemps_left is decremented, then answer[i] raises in match_words
         /\ raised' = "TypeError"
         /\ objs' = [objs EXCEPT ![o].attemps_left = @ - 1]
         /\ UNCHANGED <<alive, lists>>
    ELSE LET left == objs[o].attemps_left - 1
             matching_result == match_words(objs[o].answer, word)
         IN  /\ raised' = "none"
             /\ lists' = [lists EXCEPT ![objs[o].history] = Append(@, <<word, matching_result>>)]
             /\ objs' = [objs EXCEPT ![o].attemps_left = left,
                                     ![o].status = update_status(left, matching_result)]
             /\ UNCHANGED alive

\* the list the fork's history refers to: a new list (copy.deepcopy)
fork_history_shared(o) == objs[o].history

fork_history(o) == NewList(Other(o))

fork(o) ==
    LET p == Other(o)
        id == fork_history(o)
        w == [Wordle(DefaultMaxAttemps, id) EXCEPT !.answer = objs[o].answer,
                                                  !.status = objs[o].status,
                                                  !.attemps_left = objs[o].attemps_left,
                                                  !.max_attemps = objs[o].max_attemps]
        os == [objs EXCEPT ![p] = w]
    IN  /\ objs' = os
        /\ alive' = alive \cup {p}
        /\ lists' = Collect(os, alive \cup {p}, [lists EXCEPT ![id] = history(o)])
        /\ raised' = "none"

----------------------------------------------------------------------------
(* The actions: calls on the objects, and the terminal play loop *)

CanGrow(o) ==
    /\ Len(history(o)) < HistoryCap(o)
    /\ objs[o].attemps_left > 0 - HistoryCap(o)

Reset(o, answer) ==
    /\ term_pc = "off"
    /\ o \in alive
    /\ reset(o, answer)
    /\ UNCHANGED <<term_pc, matchVars, cacheVars, policyVars, benchVars>>

SubmitGuess(o, word) ==
    /\ term_pc = "off"
    /\ o \in alive
    /\ word_is_allowed(word) => CanGrow(o)
    /\ submit_guess(o, word)
    /\ UNCHANGED <<term_pc, matchVars, cacheVars, policyVars, benchVars>>

Fork(o) ==
    /\ term_pc = "off"
    /\ o \in alive
    /\ Len(history(o)) <= ForkHistory
    /\ objs[o].attemps_left >= 0 - ForkHistory
    /\ \A p \in alive : Len(history(p)) <= ForkHistory
    /\ fork(o)
    /\ UNCHANGED <<term_pc, matchVars, cacheVars, policyVars, benchVars>>

\* the fork is no longer referenced
Drop ==
    /\ term_pc = "off"
    /\ alive = Objs
    /\ alive' = {1}
    /\ objs' = [objs EXCEPT ![2] = Blank]
    /\ lists' = Collect(objs', {1}, lists)
    /\ raised' = "none"
    /\ UNCHANGED <<term_pc, matchVars, cacheVars, policyVars, benchVars>>

TerminalStart ==
    /\ term_pc = "off"
    /\ alive = {1}
    /\ reset(1, None)
    /\ term_pc' = "loop"
    /\ UNCHANGED <<matchVars, cacheVars, policyVars, benchVars>>

\* one iteration of the while loop of TerminalGame.start
TerminalTurn(guess) ==
    /\ term_pc = "loop"
    /\ objs[1].status = IN_PROGRESS
    /\ IF guess = CHEAT
       THEN UNCHANGED <<objs, alive, lists, raised>>
       ELSE submit_guess(1, guess)
    /\ UNCHANGED <<term_pc, matchVars, cacheVars, policyVars, benchVars>>

TerminalEnd ==
    /\ term_pc = "loop"
    /\ objs[1].status # IN_PROGRESS
    /\ term_pc' = "done"
    /\ UNCHANGED <<objs, alive, lists, raised, matchVars, cacheVars, policyVars, benchVars>>

\* the order in which the words of answer_words were written above
WrittenOrder == <<abbey, abyss, babes, motto>>

NoCall == [answer |-> None, guess |-> None, ret |-> <<>>, hit |-> FALSE]

\* no match_words call is under test
MatchIdle ==
    /\ m_answer = None
    /\ m_guess = None
    /\ m_result = <<>>
    /\ m_pc = "idle"

\* no match_words_with_cache call was made
CacheIdle ==
    /\ c_cache = <<>>
    /\ c_call = NoCall

\* no policy and no benchmark is in use
PolicyIdle ==
    /\ order = WrittenOrder
    /\ policy = "none"
    /\ cache = <<>>
    /\ p_raised = "none"
    /\ p_guess = None
    /\ b_pc = "idle"
    /\ b_i = 0
    /\ passes = 0

\* no game object exists
GameIdle ==
    /\ objs = [o \in Objs |-> Blank]
    /\ alive = {}
    /\ lists = [i \in ListIds |-> <<>>]
    /\ raised = "none"
    /\ term_pc = "off"

Init ==
    /\ \E m \in MaxAttempsChoices : objs = [o \in Objs |-> IF o = 1 THEN Wordle(m, 1) ELSE Blank]
    /\ alive = {1}
    /\ lists = [i \in ListIds |-> <<>>]
    /\ raised = "none"
    /\ term_pc = "off"
    /\ MatchIdle
    /\ CacheIdle
    /\ PolicyIdle

Next ==
    \/ \E o \in Objs, answer \in ResetArgs : Reset(o, answer)
    \/ \E o \in Objs, word \in Inputs : SubmitGuess(o, word)
    \/ \E o \in Objs : Fork(o)
    \/ Drop
    \/ TerminalStart
    \/ \E guess \in Inputs \cup {CHEAT} : TerminalTurn(guess)
    \/ TerminalEnd

Spec == Init /\ [][Next]_vars

----------------------------------------------------------------------------
(* The matcher on its own: one call of match_words on each pair of words *)

MatchInit ==
    /\ \E pair \in MatchInputs : m_answer = pair[1] /\ m_guess = pair[2]
    /\ m_result = <<>>
    /\ m_pc = "call"
    /\ GameIdle
    /\ CacheIdle
    /\ PolicyIdle

MatchWords ==
    /\ m_pc = "call"
    /\ m_result' = match_words(m_answer, m_guess)
    /\ m_pc' = "done"
    /\ UNCHANGED <<m_answer, m_guess, gameVars, cacheVars, policyVars, benchVars>>

MatchNext == MatchWords

SpecMatch == MatchInit /\ [][MatchNext]_vars

----------------------------------------------------------------------------
(* Wordle.match_words_with_cache, called on a mapping that starts empty *)

\* the words the calls are made with
CacheWords == {abbey, abyss, babes}

\* the key f"{answer}/{guess}", as its sequence of characters
cache_key_guess_only(answer, guess_word) == guess_word

cache_key(answer, guess_word) == answer \o <<"/">> \o guess_word

match_words_with_cache(answer, guess_word) ==
    LET key == cache_key(answer, guess_word)
    IN  IF key \in DOMAIN c_cache
        THEN /\ c_call' = [answer |-> answer, guess |-> guess_word,
                           ret |-> c_cache[key], hit |-> TRUE]
             /\ UNCHANGED c_cache
        ELSE LET result == match_words(answer, guess_word)
             IN  /\ c_cache' = (key :> result) @@ c_cache
                 /\ c_call' = [answer |-> answer, guess |-> guess_word,
                               ret |-> result, hit |-> FALSE]

CacheInit ==
    /\ CacheIdle
    /\ MatchIdle
    /\ GameIdle
    /\ PolicyIdle

MatchWordsWithCache(answer, guess_word) ==
    /\ (cache_key(answer, guess_word) \notin DOMAIN c_cache)
          => Cardinality(DOMAIN c_cache) < MaxCached
    /\ match_words_with_cache(answer, guess_word)
    /\ UNCHANGED <<gameVars, matchVars, policyVars, benchVars>>

CacheNext == \E answer \in CacheWords, guess_word \in CacheWords :
                MatchWordsWithCache(answer, guess_word)

SpecCache == CacheInit /\ [][CacheNext]_vars

----------------------------------------------------------------------------
(* The policies: RandomPolicy.guess and GreedyEliminationPolicy.guess *)

\* the orders in which a process may iterate the frozenset answer_words
AnswerOrders ==
    {f \in [1..Cardinality(answer_words) -> answer_words] :
        \A w \in answer_words : \E i \in DOMAIN f : f[i] = w}

\* list(wordle.get_candidates()): the candidates in iteration order
candidates_list(o) ==
    SelectSeq(order, LAMBDA w : could_answer_fit_history(w, history(o)))

Max(a, b) == IF a >= b THEN a ELSE b

\* the loop of GreedyEliminationPolicy.guess from candidate k on: each
\* iteration forks the game, submits the candidate to the fork and scores it.
\* h is what the game's own history list holds when the iteration starts; it
\* changes only if the fork's history is that same list.
RECURSIVE greedy_loop(_, _, _, _, _)
greedy_loop(o, candidates, k, h, scores) ==
    IF k > Len(candidates) THEN [raised |-> "none", h |-> h, scores |-> scores]
    ELSE IF ~word_is_allowed(candidates[k])
         THEN [raised |-> "ValueError", h |-> h, scores |-> scores]
    ELSE IF objs[o].answer = None
         THEN [raised |-> "TypeError", h |-> h, scores |-> scores]
    ELSE LET matching_result == match_words(objs[o].answer, candidates[k])
             fork_h == Append(h, <<candidates[k], matching_result>>)
             score == Len(candidates) - Cardinality(candidates_of(fork_h))
             game_h == IF fork_history(o) = objs[o].history THEN fork_h ELSE h
         IN  greedy_loop(o, candidates, k + 1, game_h, Append(scores, score))

RECURSIVE MaxOf(_, _, _)
MaxOf(scores, k, curr_best) ==
    IF k > Len(scores) THEN curr_best
    ELSE MaxOf(scores, k + 1, Max(curr_best, scores[k]))

\* scores.index(value): the first index that holds value, 0 when there is none
index_last(scores, value) ==
    LET found == {k \in DOMAIN scores : scores[k] = value}
    IN  IF found = {} THEN 0 ELSE CHOOSE k \in found : \A j \in found : j <= k

index(scores, value) ==
    LET found == {k \in DOMAIN scores : scores[k] = value}
    IN  IF found = {} THEN 0 ELSE Min(found)

greedy_compute_tolerant(o) ==
    LET candidates == candidates_list(o)
        run == greedy_loop(o, candidates, 1, history(o), <<>>)
        curr_best == MaxOf(run.scores, 1, 0)
        at == index(run.scores, curr_best)
    IN  IF run.raised # "none"
        THEN [raised |-> run.raised, to_guess |-> None, h |-> run.h]
        ELSE IF at = 0
        THEN [raised |-> "none", to_guess |-> None, h |-> run.h]
        ELSE [raised |-> "none", to_guess |-> candidates[at], h |-> run.h]

\* the else branch of GreedyEliminationPolicy.guess: what it raises, the word
\* it chooses, and what the game's history list holds afterwards
greedy_compute(o) ==
    LET candidates == candidates_list(o)
        run == greedy_loop(o, candidates, 1, history(o), <<>>)
        curr_best == MaxOf(run.scores, 1, 0)
        at == index(run.scores, curr_best)
    IN  IF run.raised # "none"
        THEN [raised |-> run.raised, to_guess |-> None, h |-> run.h]
        ELSE IF at = 0
        THEN [raised |-> "ValueError", to_guess |-> None, h |-> run.h]
        ELSE [raised |-> "none", to_guess |-> candidates[at], h |-> run.h]

random_guess(o) ==
    LET candidates == candidates_list(o)
    IN  IF candidates = <<>>
        THEN /\ p_raised' = "IndexError"
             /\ p_guess' = None
        ELSE /\ p_raised' = "none"
             /\ \E k \in DOMAIN candidates : p_guess' = candidates[k]

greedy_guess(o) ==
    LET key == history(o)
    IN  IF key \in DOMAIN cache
        THEN /\ p_guess' = cache[key]
             /\ p_raised' = "none"
             /\ UNCHANGED <<cache, lists>>
        ELSE LET r == greedy_compute(o)
             IN  /\ p_raised' = r.raised
                 /\ p_guess' = r.to_guess
                 /\ lists' = [lists EXCEPT ![objs[o].history] = r.h]
                 /\ cache' = IF r.raised = "none"
                             THEN (key :> r.to_guess) @@ cache
                             ELSE cache

\* policy.guess(wordle) for the policy in use
policy_guess(o) ==
    /\ IF policy = "random"
       THEN random_guess(o) /\ UNCHANGED <<cache, lists>>
       ELSE greedy_guess(o)
    /\ UNCHANGED <<objs, alive, raised, order, policy>>

\* GreedyEliminationPolicy.reset
policy_reset ==
    /\ cache' = IF policy = "greedy" THEN <<>> ELSE cache
    /\ UNCHANGED <<order, policy, p_raised, p_guess>>

----------------------------------------------------------------------------
(* benchmark_policy *)

BenchMaxAttemps == 20

BenchInit ==
    /\ GameIdle
    /\ MatchIdle
    /\ CacheIdle
    /\ order \in AnswerOrders
    /\ policy \in {"random", "greedy"}
    /\ cache = <<>>
    /\ p_raised = "none"
    /\ p_guess = None
    /\ b_pc = "idle"
    /\ b_i = 0
    /\ passes = 0

\* the call: wordle = Wordle(max_attemps=20), and the for loop starts
BenchStart ==
    /\ b_pc = "idle"
    /\ passes < MaxPasses
    /\ passes' = passes + 1
    /\ objs' = [o \in Objs |-> IF o = 1 THEN Wordle(BenchMaxAttemps, 1) ELSE Blank]
    /\ alive' = {1}
    /\ lists' = [i \in ListIds |-> <<>>]
    /\ raised' = "none"
    /\ b_i' = 1
    /\ b_pc' = "for"
    /\ UNCHANGED <<term_pc, matchVars, cacheVars, policyVars>>

\* the next answer of the for loop: wordle.reset(answer)
BenchReset ==
    /\ b_pc = "for"
    /\ b_i <= Len(order)
    /\ reset(1, order[b_i])
    /\ b_pc' = "while"
    /\ UNCHANGED <<term_pc, matchVars, cacheVars, policyVars, b_i, passes>>

\* guess = policy.guess(wordle)
BenchGuess ==
    /\ b_pc = "while"
    /\ objs[1].status = IN_PROGRESS
    /\ policy_guess(1)
    /\ b_pc' = IF p_raised' = "none" THEN "submit" ELSE "crashed"
    /\ UNCHANGED <<term_pc, matchVars, cacheVars, b_i, passes>>

\* wordle.submit_guess(guess)
BenchSubmit ==
    /\ b_pc = "submit"
    /\ submit_guess(1, p_guess)
    /\ b_pc' = IF raised' = "none" THEN "while" ELSE "crashed"
    /\ UNCHANGED <<term_pc, matchVars, cacheVars, policyVars, b_i, passes>>

\* the while loop ends: the game is counted and the for loop goes on
BenchGameEnd ==
    /\ b_pc = "while"
    /\ objs[1].status # IN_PROGRESS
    /\ b_i' = b_i + 1
    /\ b_pc' = "for"
    /\ UNCHANGED <<gameVars, matchVars, cacheVars, policyVars, passes>>

\* the for loop is exhausted: benchmark_policy returns
BenchReturn ==
    /\ b_pc = "for"
    /\ b_i > Len(order)
    /\ b_pc' = "idle"
    /\ b_i' = 0
    /\ UNCHANGED <<gameVars, matchVars, cacheVars, policyVars, passes>>

\* a caller resets the policy between two benchmark_policy calls
PolicyReset ==
    /\ b_pc = "idle"
    /\ policy_reset
    /\ UNCHANGED <<gameVars, matchVars, cacheVars, benchVars>>

BenchStep ==
    \/ BenchStart
    \/ BenchReset
    \/ BenchGuess
    \/ BenchSubmit
    \/ BenchGameEnd
    \/ BenchReturn

BenchNext ==
    \/ BenchStep
    \/ PolicyReset

SpecBench == BenchInit /\ [][BenchNext]_vars

----------------------------------------------------------------------------
(* A caller that plays games with a policy: reset to any answer, ask the      *)
(* policy for a guess in any state, submit the guess while the game goes on   *)

\* the iteration orders the games are played under: the written one, with the
\* word that shares no letter with the other answers moved to any position
PlayOrders ==
    {f \in AnswerOrders : SelectSeq(f, LAMBDA w : w # motto) = <<abbey, abyss, babes>>}

PolicyInit ==
    /\ \E m \in MaxAttempsChoices : objs = [o \in Objs |-> IF o = 1 THEN Wordle(m, 1) ELSE Blank]
    /\ alive = {1}
    /\ lists = [i \in ListIds |-> <<>>]
    /\ raised = "none"
    /\ term_pc = "off"
    /\ MatchIdle
    /\ CacheIdle
    /\ order \in PlayOrders
    /\ policy \in {"random", "greedy"}
    /\ cache = <<>>
    /\ p_raised = "none"
    /\ p_guess = None
    /\ b_pc = "idle"
    /\ b_i = 0
    /\ passes = 0

PlayReset(answer) ==
    /\ reset(1, answer)
    /\ p_guess' = None
    /\ p_raised' = "none"
    /\ UNCHANGED <<term_pc, matchVars, cacheVars, order, policy, cache, benchVars>>

PlayGuess ==
    /\ policy_guess(1)
    /\ UNCHANGED <<term_pc, matchVars, cacheVars, benchVars>>

PlaySubmit ==
    /\ p_guess # None
    /\ objs[1].status = IN_PROGRESS
    /\ objs[1].attemps_left > 0 - Overrun
    /\ submit_guess(1, p_guess)
    /\ p_guess' = None
    /\ UNCHANGED <<term_pc, matchVars, cacheVars, order, policy, cache, p_raised, benchVars>>

PlayPolicyReset ==
    /\ policy_reset
    /\ UNCHANGED <<gameVars, matchVars, cacheVars, benchVars>>

PolicyNext ==
    \/ \E answer \in ResetArgs : PlayReset(answer)
    \/ PlayGuess
    \/ PlaySubmit
    \/ PlayPolicyReset

SpecPolicy == PolicyInit /\ [][PolicyNext]_vars

----------------------------------------------------------------------------
(* Properties of the matcher, checked under SpecMatch *)

Count(S) == Cardinality(S)

\* the classification the matcher is specified to compute, position by position
RefMatch(answer, guess) ==
    [i \in 1..WORD_LEN |->
        IF guess[i] = answer[i] THEN EXACT
        ELSE IF Count({j \in 1..WORD_LEN : answer[j] # guess[j] /\ answer[j] = guess[i]})
                > Count({k \in 1..(i - 1) : guess[k] # answer[k] /\ guess[k] = guess[i]})
             THEN SEMI
             ELSE NONE]

\* C1: match_words(answer, guess) is the reference classification (Exact where
\* the letters agree; a non-Exact position is Present iff the answer has more
\* non-Exact positions with that letter than the guess has earlier non-Exact
\* positions with it; Absent otherwise), and it renders the cases of
\* test_match_words as the test expects.
C1_MatchIsReference ==
    m_pc = "done" =>
        /\ m_result = RefMatch(m_answer, m_guess)
        /\ \A t \in TestCases :
              (t[1] = m_answer /\ t[2] = m_guess) => render_ascii(m_result) = t[3]

\* a repeated guess letter whose earlier occurrence is Present and whose later one is Absent
C1_Witness ==
    /\ m_pc = "done"
    /\ \E k, i \in 1..WORD_LEN :
          /\ k < i
          /\ m_guess[k] = m_guess[i]
          /\ m_result[k] = SEMI
          /\ m_result[i] = NONE

\* the positions of the result that are Exact or Present and whose guess letter is c
Credited(guess, result, c) ==
    {i \in 1..WORD_LEN : guess[i] = c /\ result[i] \in {EXACT, SEMI}}

Occurrences(word, c) == {i \in DOMAIN word : word[i] = c}

\* C2: for every letter c, the Exact or Present positions of the result whose
\* guess letter is c are at most as many as the occurrences of c in the answer
\* and at most as many as its occurrences in the guess.
C2_CreditBounded ==
    m_pc = "done" =>
        \A i \in 1..WORD_LEN :
            LET c == m_guess[i]
                n == Count(Credited(m_guess, m_result, c))
            IN  /\ n <= Count(Occurrences(m_answer, c))
                /\ n <= Count(Occurrences(m_guess, c))

\* a letter the guess holds more often than the answer, credited as often as the answer holds it
C2_Witness ==
    /\ m_pc = "done"
    /\ \E i \in 1..WORD_LEN :
          LET c == m_guess[i]
          IN  /\ Count(Occurrences(m_guess, c)) > Count(Occurrences(m_answer, c))
              /\ Count(Occurrences(m_answer, c)) > 0
              /\ Count(Credited(m_guess, m_result, c)) = Count(Occurrences(m_answer, c))

\* C14: match_words(w, w) is all-Exact for every word w, and
\* match_words(answer, guess) is all-Exact only when guess = answer.
C14_AllExactIffEqual ==
    m_pc = "done" =>
        ((\A i \in 1..WORD_LEN : m_result[i] = EXACT) <=> m_guess = m_answer)

\* a guess that is a rearrangement of the answer: every letter credited, not all of them Exact
C14_Witness ==
    /\ m_pc = "done"
    /\ m_guess # m_answer
    /\ \A i \in 1..WORD_LEN : m_result[i] \in {EXACT, SEMI}
    /\ \E i \in 1..WORD_LEN : m_result[i] = EXACT

----------------------------------------------------------------------------
(* Properties of the game object, checked under Spec *)

\* a step is a submit_guess call on o, made directly or by the terminal loop
SubmitStep(o, word) == SubmitGuess(o, word) \/ (o = 1 /\ TerminalTurn(word))

LastResultAllExact(o) ==
    /\ history(o) # <<>>
    /\ all_exact(history(o)[Len(history(o))][2])

\* C3: in every reachable state of a game object, from construction on, the
\* length of history plus attemps_left equals max_attemps.
C3_HistoryPlusLeft ==
    \A o \in alive : Len(history(o)) + objs[o].attemps_left = objs[o].max_attemps

\* C4: in every reachable state status is WIN iff the most recent result is
\* all-Exact, LOSE iff attemps_left is 0 and the status is not WIN, and
\* IN_PROGRESS otherwise.
C4_StatusInvariant ==
    \A o \in alive :
        LET st == objs[o].status
            lose == objs[o].attemps_left = 0 /\ st # WIN
        IN  /\ st = WIN <=> LastResultAllExact(o)
            /\ st = LOSE <=> lose
            /\ st = IN_PROGRESS <=> (~LastResultAllExact(o) /\ ~lose)

\* C5: once the status is WIN or LOSE, a submit_guess is rejected: it changes
\* neither history, nor attemps_left, nor status.
C5_TerminalRejects ==
    [][\A o \in Objs, word \in Inputs :
          (objs[o].status \in {WIN, LOSE} /\ SubmitStep(o, word)) =>
              /\ lists'[objs'[o].history] = history(o)
              /\ objs'[o].attemps_left = objs[o].attemps_left
              /\ objs'[o].status = objs[o].status]_vars

\* C6: submit_guess with a word of neither dictionary raises ValueError and
\* leaves attemps_left, history and status as they were; with a word of either
\* dictionary it does not raise ValueError. This holds for the calls the
\* terminal loop makes as well.
C6_InvalidWordRejected ==
    [][\A o \in Objs, word \in Inputs :
          SubmitStep(o, word) =>
              IF word \notin allowed_words /\ word \notin answer_words
              THEN /\ raised' = "ValueError"
                   /\ objs'[o].attemps_left = objs[o].attemps_left
                   /\ objs'[o].status = objs[o].status
                   /\ objs'[o].history = objs[o].history
                   /\ lists'[objs[o].history] = history(o)
              ELSE raised' # "ValueError"]_vars

\* the terminal loop, some guesses in, has just refused a word
C6_Witness ==
    /\ term_pc = "loop"
    /\ raised = "ValueError"
    /\ history(1) # <<>>
    /\ Len(history(1)) + objs[1].attemps_left = objs[1].max_attemps

\* the game was reset and every guess since was submitted while IN_PROGRESS
Played(o) ==
    /\ objs[o].answer # None
    /\ objs[o].status = IN_PROGRESS
    /\ Len(history(o)) < objs[o].max_attemps
    /\ \A k \in DOMAIN history(o) : history(o)[k][1] # objs[o].answer

\* C7: with max_attemps = 6 and valid guesses submitted while IN_PROGRESS, the
\* status becomes WIN exactly when the guess equals the answer, LOSE exactly
\* when the sixth guess is submitted and none of the six equals the answer, and
\* stays IN_PROGRESS otherwise.
C7_EndToEnd ==
    /\ [](term_pc = "loop" /\ objs[1].status = IN_PROGRESS => Played(1))
    /\ [][\A o \in Objs, word \in allowed_words \cup answer_words :
            (Played(o) /\ objs[o].max_attemps = 6 /\ SubmitStep(o, word)) =>
                LET n == Len(lists'[objs'[o].history])
                    st == objs'[o].status
                IN  /\ n = Len(history(o)) + 1
                    /\ st = WIN <=> word = objs[o].answer
                    /\ st = LOSE <=> (word # objs[o].answer /\ n = 6)
                    /\ st = IN_PROGRESS <=> (word # objs[o].answer /\ n < 6)]_vars

\* the terminal loop ended a game of six guesses, none of them the answer
C7_Witness ==
    /\ term_pc = "done"
    /\ objs[1].max_attemps = 6
    /\ objs[1].status = LOSE
    /\ Len(history(1)) = 6
    /\ \A k \in DOMAIN history(1) : history(1)[k][1] # objs[1].answer

\* the fields of o and the contents of its history are the same after the step
Untouched(o) ==
    /\ objs'[o].answer = objs[o].answer
    /\ objs'[o].status = objs[o].status
    /\ objs'[o].attemps_left = objs[o].attemps_left
    /\ objs'[o].max_attemps = objs[o].max_attemps
    /\ lists'[objs'[o].history] = history(o)

\* C8: fork returns a game whose answer, history, status, attemps_left and
\* max_attemps equal the original's, and leaves the original as it was;
\* afterwards a submit_guess or reset on either of the two leaves the other's
\* answer, history, status and attemps_left unchanged.
C8_ForkIndependent ==
    [][/\ \A o \in Objs :
            Fork(o) =>
                /\ Untouched(o)
                /\ objs'[Other(o)].answer = objs[o].answer
                /\ objs'[Other(o)].status = objs[o].status
                /\ objs'[Other(o)].attemps_left = objs[o].attemps_left
                /\ objs'[Other(o)].max_attemps = objs[o].max_attemps
                /\ lists'[objs'[Other(o)].history] = history(o)
       /\ \A o \in Objs, word \in Inputs :
            (alive = Objs /\ SubmitGuess(o, word)) => Untouched(Other(o))
       /\ \A o \in Objs, answer \in ResetArgs :
            (alive = Objs /\ Reset(o, answer)) => Untouched(Other(o))]_vars

\* a fork that was played further than its original, which still has the history of the fork's start
C8_Witness ==
    /\ alive = Objs
    /\ objs[1].answer # None
    /\ objs[1].answer = objs[2].answer
    /\ objs[1].status = IN_PROGRESS
    /\ objs[2].status # IN_PROGRESS
    /\ Len(history(2)) > Len(history(1))
    /\ SubSeq(history(2), 1, Len(history(1))) = history(1)
    /\ objs[2].attemps_left < objs[1].attemps_left

\* C9: a valid submit_guess never enlarges the candidate set: the candidates
\* after the guess are a subset of the candidates before it.
C9_CandidatesShrink ==
    [][\A o \in Objs, word \in allowed_words \cup answer_words :
          SubmitStep(o, word) =>
              candidates_of(lists'[objs'[o].history]) \subseteq get_candidates(o)]_vars

\* a second guess that told nothing new, after a first guess that removed candidates
C9_Witness ==
    \E o \in alive :
        /\ Len(history(o)) = 2
        /\ candidates_of(<<history(o)[2]>>) = answer_words
        /\ get_candidates(o) # answer_words
        /\ get_candidates(o) # {}

\* C10: with an empty history, in particular right after any reset,
\* get_candidates returns exactly answer_words.
C10_EmptyHistoryAllAnswers ==
    /\ [](\A o \in alive : history(o) = <<>> => get_candidates(o) = answer_words)
    /\ [][\A o \in Objs, answer \in ResetArgs :
            Reset(o, answer) => candidates_of(lists'[objs'[o].history]) = answer_words]_vars

\* a game that was reset while its fork, taken earlier, still holds the guesses played before
C10_Witness ==
    /\ alive = Objs
    /\ objs[1].answer # None
    /\ history(1) = <<>>
    /\ history(2) # <<>>
    /\ get_candidates(2) # answer_words
    /\ get_candidates(1) = answer_words

\* C18: a game reset with an answer of answer_words keeps that answer among its
\* candidates after any sequence of valid guesses, so its candidate set is
\* never empty.
C18_AnswerStaysCandidate ==
    \A o \in alive :
        objs[o].answer \in answer_words =>
            /\ objs[o].answer \in get_candidates(o)
            /\ get_candidates(o) # {}

\* two guesses in, the answer is the only candidate left and was not guessed yet
C18_Witness ==
    \E o \in alive :
        /\ objs[o].answer \in answer_words
        /\ Len(history(o)) >= 2
        /\ objs[o].status = IN_PROGRESS
        /\ get_candidates(o) = {objs[o].answer}
        /\ \A k \in DOMAIN history(o) : history(o)[k][1] # objs[o].answer

----------------------------------------------------------------------------
(* Properties of the cached matcher, checked under SpecCache *)

\* C13: on a mapping that starts empty and is written only by
\* match_words_with_cache, every call returns what match_words returns, every
\* entry stored under the key of a pair (answer, guess) is
\* match_words(answer, guess), and no two distinct pairs share a key.
C13_CacheIsTransparent ==
    /\ c_call # NoCall => c_call.ret = match_words(c_call.answer, c_call.guess)
    /\ \A a \in CacheWords, g \in CacheWords :
          cache_key(a, g) \in DOMAIN c_cache =>
              c_cache[cache_key(a, g)] = match_words(a, g)
    /\ \A a1 \in CacheWords, g1 \in CacheWords, a2 \in CacheWords, g2 \in CacheWords :
          cache_key(a1, g1) = cache_key(a2, g2) => (a1 = a2 /\ g1 = g2)

\* a call answered from the mapping, which also holds an entry for the same guess and another answer
C13_Witness ==
    /\ c_call.hit
    /\ \E a \in CacheWords :
          /\ a # c_call.answer
          /\ cache_key(a, c_call.guess) \in DOMAIN c_cache
          /\ c_cache[cache_key(a, c_call.guess)] # c_call.ret

----------------------------------------------------------------------------
(* Properties of the policies, checked under SpecPolicy *)

\* the number of candidates of game 1 that submitting c would eliminate
Eliminated(c) ==
    Cardinality(get_candidates(1))
      - Cardinality(candidates_of(Append(history(1), <<c, match_words(objs[1].answer, c)>>)))

C12_EmptyCandidatesFail ==
    [][(candidates_list(1) = <<>> /\ PlayGuess) =>
            /\ p_raised' # "none"
            /\ p_guess' = None
            /\ cache' = cache
            /\ objs' = objs
            /\ lists' = lists]_vars

\* the greedy policy, its memo filled by the guesses so far, failed on a game in progress
C12_Witness ==
    /\ policy = "greedy"
    /\ p_raised = "ValueError"
    /\ get_candidates(1) = {}
    /\ objs[1].status = IN_PROGRESS
    /\ Len(history(1)) >= 2
    /\ cache # <<>>
    /\ history(1) \notin DOMAIN cache

\* C19: policy.guess leaves the game it is given unchanged (history,
\* attemps_left, status and answer), and the word it returns is one of the
\* game's current candidates.
C19_GuessLeavesGame ==
    [][PlayGuess =>
            /\ objs'[1] = objs[1]
            /\ lists'[objs'[1].history] = history(1)
            /\ p_raised' = "none" => p_guess' \in get_candidates(1)]_vars

\* the greedy policy scored several candidates on forks of a game with guesses played
C19_Witness ==
    /\ policy = "greedy"
    /\ p_guess # None
    /\ history(1) # <<>>
    /\ history(1) \in DOMAIN cache
    /\ Cardinality(get_candidates(1)) >= 2
    /\ p_guess \in get_candidates(1)
    /\ objs[1].status = IN_PROGRESS
    /\ Len(history(1)) + objs[1].attemps_left = objs[1].max_attemps

\* every guess in the history was a candidate when it was submitted
GuessesWereCandidates(hist) ==
    \A k \in DOMAIN hist : hist[k][1] \in candidates_of(SubSeq(hist, 1, k - 1))

\* C20: with an answer of answer_words and every guess taken from the current
\* candidates, a guess that does not win removes at least itself from the
\* candidates, so a game with max_attemps >= |answer_words| is never lost and
\* is won within |answer_words| guesses.
C20_CandidateGuessesWin ==
    /\ [][(objs[1].answer \in answer_words /\ PlaySubmit) =>
            /\ p_guess \in get_candidates(1)
            /\ p_guess # objs[1].answer =>
                  /\ p_guess \notin candidates_of(lists'[objs'[1].history])
                  /\ candidates_of(lists'[objs'[1].history]) \subseteq get_candidates(1)
                  /\ candidates_of(lists'[objs'[1].history]) # get_candidates(1)]_vars
    /\ [](/\ GuessesWereCandidates(history(1))
          /\ (objs[1].answer \in answer_words
              /\ objs[1].max_attemps >= Cardinality(answer_words)) =>
                  /\ objs[1].status # LOSE
                  /\ Len(history(1)) <= Cardinality(answer_words)
                  /\ Len(history(1)) = Cardinality(answer_words) => objs[1].status = WIN)

\* a game with a budget of six, won by its third guess after two candidate guesses that missed
C20_Witness ==
    /\ objs[1].answer \in answer_words
    /\ objs[1].max_attemps >= Cardinality(answer_words)
    /\ objs[1].status = WIN
    /\ Len(history(1)) = 3
    /\ history(1)[1][1] # objs[1].answer
    /\ history(1)[2][1] # objs[1].answer

----------------------------------------------------------------------------
(* Properties of benchmark_policy, checked under SpecBench *)

\* C15: at the start of every call of benchmark_policy the policy's memo is empty.
C15_MemoEmptyAtStart ==
    [][BenchStart => cache = <<>>]_vars

\* C16: in benchmark_policy no guess of the loop fails or is rejected, every
\* turn of the loop submits one guess, and a game in progress has attempts
\* left out of max_attemps: the loop ends in WIN or LOSE after at most
\* max_attemps submitted guesses.
C16_GameLoopTerminates ==
    /\ [](b_pc # "crashed" /\ raised = "none" /\ p_raised = "none")
    /\ [](b_pc \in {"while", "submit"} =>
            /\ Len(history(1)) + objs[1].attemps_left = objs[1].max_attemps
            /\ objs[1].status = IN_PROGRESS => objs[1].attemps_left > 0
            /\ objs[1].status # IN_PROGRESS => b_pc = "while")
    /\ [](b_pc = "for" /\ b_i > 1 => objs[1].status \in {WIN, LOSE})
    /\ [][BenchSubmit => Len(lists'[objs'[1].history]) = Len(history(1)) + 1]_vars

\* a game of the benchmark that took three guesses
C16_Witness ==
    /\ b_pc = "for"
    /\ 1 \in alive
    /\ objs[1].status = WIN
    /\ Len(history(1)) >= 3

\* C17: the guess the greedy policy returns (from its memo or not) is the
\* guess a computation without memo returns for the same game.
C17_MemoEqualsFresh ==
    (b_pc = "submit" /\ policy = "greedy") => p_guess = greedy_compute(1).to_guess

====
